---- MODULE Spec2Model ----
(***************************************************************************)
(* LLM-train-monitor: the dashboard binary (src/src/main.rs) and the plain *)
(* transcript binary (src/llmtrain_monitor.rs), modelled as one state      *)
(* machine.  `mode` says which of the two binaries is running.             *)
(*                                                                         *)
(* Environment: the command line (argv), the NVML driver (present or not,  *)
(* device count, and which per-device queries the driver answers with an   *)
(* error), the process table and load levels (world), the keyboard         *)
(* (queue) and the terminal (term; each terminal call may fail).           *)
(*                                                                         *)
(* History: tick counts the calls of update; polled says whether the event *)
(* queue was polled since the last update; probed holds the driver         *)
(* readings obtained since the last update; broke says that the loop was   *)
(* left through `break`; draws counts the completed draws; teardown counts   *)
(* the completed restoration steps.                                        *)
(***************************************************************************)
EXTENDS Integers, Sequences, FiniteSets, TLC

VARIABLES mode, argv, driver, world, pc, monitor, term, teardown, queue,
          gpu_info, gpu_summary, frame_toggle, screen, transcript, tick,
          polled, probed, broke, draws, result

vars == <<mode, argv, driver, world, pc, monitor, term, teardown, queue,
          gpu_info, gpu_summary, frame_toggle, screen, transcript, tick,
          polled, probed, broke, draws, result>>

----------------------------------------------------------------------------
(* Bounds *)

MaxTicks == 2
MaxQueue == 2
MaxDevices == 1

----------------------------------------------------------------------------
(* Option values *)

None == [some |-> FALSE]
Some(x) == [some |-> TRUE, v |-> x]

----------------------------------------------------------------------------
(* Command line.  An argument is a sequence of characters. *)

Digits == <<"0", "1", "2", "3", "4", "5", "6", "7", "8", "9">>

IsDigit(c) == \E i \in 1..10 : Digits[i] = c

DigitVal(c) == (CHOOSE i \in 1..10 : Digits[i] = c) - 1

RECURSIVE FoldDigits(_, _)
FoldDigits(s, acc) ==
    IF s = << >> THEN acc ELSE FoldDigits(Tail(s), acc * 10 + DigitVal(Head(s)))

\* str::parse::<u64>(): an optional leading '+', then one or more digits.
ParseU64(s) ==
    LET body == IF s # << >> /\ Head(s) = "+" THEN Tail(s) ELSE s
    IN  IF body # << >> /\ \A i \in 1..Len(body) : IsDigit(body[i])
        THEN Some(FoldDigits(body, 0))
        ELSE None

RECURSIVE ParenDepth(_, _)
ParenDepth(s, d) ==
    IF s = << >> THEN d
    ELSE IF d < 0 THEN d
    ELSE ParenDepth(Tail(s), IF Head(s) = "(" THEN d + 1
                             ELSE IF Head(s) = ")" THEN d - 1 ELSE d)

\* Regex::new(): the patterns used here fail to compile exactly when their
\* groups are not balanced.
RegexNew(p) == IF ParenDepth(p, 0) = 0 THEN Some(p) ELSE None

ProcName == <<"s", "l", "e", "e", "p">>
LogPath == <<"t", ".", "l", "o", "g">>
GoodPattern == <<"a", "=", "(", "d", ")">>
BadPattern == <<"a", "=", "(", "d">>

ArgVectors ==
    { <<ProcName, <<"2">>>>,
      <<ProcName, <<"0">>, LogPath, GoodPattern>>,
      <<ProcName, <<"x">>>>,
      <<ProcName, <<"-", "1">>>>,
      <<ProcName, <<"1">>, LogPath, BadPattern>> }

\* matches.value_of(..) for an optional positional argument
ValueOf(args, i) == IF Len(args) >= i THEN Some(args[i]) ELSE None

----------------------------------------------------------------------------
(* Environment values *)

Modes == {"dashboard", "plain"}
Levels == {"idle", "busy"}
Metrics == {"utilization", "memory", "temperature", "tensor"}
Events == {"q", "key", "other"}

HostCpu(l) == IF l = "idle" THEN 4 ELSE 93
HostUsed(l) == IF l = "idle" THEN 3145729 ELSE 7340033
HostTotal == 8 * 1024 * 1024
ProcCpu(l) == IF l = "idle" THEN 1 ELSE 88
ProcMem(l) == IF l = "idle" THEN 1048577 ELSE 2097153
GpuUtil(l) == IF l = "idle" THEN 2 ELSE 97
GpuUsed(l) == IF l = "idle" THEN 1048576 ELSE 6291457
GpuTotal == 8 * 1024 * 1024
GpuTemp(l) == IF l = "idle" THEN 35 ELSE 82

\* "{} MB" of a byte count: bytes / 1024 / 1024
MB(b) == (b \div 1024) \div 1024

\* The driver: absent (Nvml::init fails, whatever devices are installed), or
\* present with `count` devices.
\* `faults` is the set of <<device, query>> pairs the driver answers with an
\* error for the whole run; at most one device is faulty.  A device whose
\* handle cannot be had is never asked anything else.
Queries == Metrics \cup {"handle"}

DriversWith(c) ==
    { [present |-> TRUE, count |-> c, faults |-> f] :
        f \in { g \in SUBSET ((0..(c - 1)) \X Queries) :
                   /\ \A x, y \in g : x[1] = y[1]
                   /\ (\E x \in g : x[2] = "handle") => Cardinality(g) = 1 } }

Drivers ==
    { [present |-> FALSE, count |-> c, faults |-> {}] : c \in 0..MaxDevices }
    \cup UNION { DriversWith(c) : c \in 0..MaxDevices }

\* nvml.device_by_index(i) succeeds
DeviceOk(i) == i < driver.count /\ <<i, "handle">> \notin driver.faults

\* a per-device query (utilization_rates, memory_info, temperature, ...) succeeds
QueryOk(i, m) == <<i, m>> \notin driver.faults

\* What the host looks like at the moment of a refresh: the load level and
\* whether a process named process_name is in the process table.
Worlds == [proc : BOOLEAN, level : Levels]

----------------------------------------------------------------------------
(* Program values *)

IdleWorld == [proc |-> FALSE, level |-> "idle"]
NoDriver == [present |-> FALSE, count |-> 0, faults |-> {}]


\* std::process exit status of main's outcome
ExitCode(r) ==
    IF r.kind = "Ok" THEN 0
    ELSE IF r.kind = "Err" THEN 1
    ELSE 101

Running == [kind |-> "Running", what |-> "none"]
Ok == [kind |-> "Ok", what |-> "none"]
Err(what) == [kind |-> "Err", what |-> what]
Panic(what) == [kind |-> "Panic", what |-> what]

\* System::new_all / System::refresh_all: the snapshot of host w
RefreshAll(w) ==
    [cpu |-> HostCpu(w.level),
     used |-> HostUsed(w.level),
     total |-> HostTotal,
     process |-> IF w.proc
                 THEN Some([cpu |-> ProcCpu(w.level), memory |-> ProcMem(w.level)])
                 ELSE None]

NoMonitor == [process_name |-> << >>, update_interval |-> 0,
              log_file_path |-> None, metric_regex |-> None,
              nvml |-> FALSE, system |-> RefreshAll(IdleWorld)]


----------------------------------------------------------------------------
(* Rendered text.  A line or panel is a record: its kind, the process name *)
(* it prints (if any) and the numbers it prints.                            *)

Line(k, name, a, b) == [k |-> k, name |-> name, a |-> a, b |-> b]

Panel(k, name, items) == [k |-> k, name |-> name, items |-> items]

BlankScreen == [drawn |-> FALSE, frame |-> 0, summary |-> Line("none", << >>, 0, 0),
                cpu |-> Line("none", << >>, 0, 0),
                memory |-> Line("none", << >>, 0, 0),
                bottom |-> << >>]

\* A reading obtained from the driver: device, query and the value returned
Probe(i, m, v) == [dev |-> i, query |-> m, v |-> v]

----------------------------------------------------------------------------
(* Dashboard binary: src/src/main.rs *)

\* LLMTrainMonitor::new: the constructed monitor, or None when the pattern
\* does not compile (expect panics)
New(process_name, update_interval, log_file_path, metric_regex, nvml, w) ==
    IF metric_regex.some /\ ~RegexNew(metric_regex.v).some
    THEN None
    ELSE Some([process_name |-> process_name,
               update_interval |-> update_interval,
               log_file_path |-> log_file_path,
               metric_regex |-> IF metric_regex.some
                                THEN RegexNew(metric_regex.v) ELSE None,
               nvml |-> nvml,
               system |-> RefreshAll(w)])

\* get_gpu_info asking the driver without looking at the stored handle
get_gpu_info_unguarded ==
    IF /\ 0 < driver.count
       /\ QueryOk(0, "utilization")
       /\ QueryOk(0, "memory")
       /\ QueryOk(0, "temperature")
    THEN Some([usage |-> GpuUtil(world.level), used |-> GpuUsed(world.level),
               total |-> GpuTotal, temp |-> GpuTemp(world.level)])
    ELSE None

\* get_gpu_info: device 0 only; any failing query gives None
get_gpu_info ==
    IF /\ monitor.nvml
       /\ DeviceOk(0)
       /\ QueryOk(0, "utilization")
       /\ QueryOk(0, "memory")
       /\ QueryOk(0, "temperature")
    THEN Some([usage |-> GpuUtil(world.level), used |-> GpuUsed(world.level),
               total |-> GpuTotal, temp |-> GpuTemp(world.level)])
    ELSE None

\* the driver queries get_gpu_info gets an answer to, each `?` cutting it short
get_gpu_probes ==
    IF ~(monitor.nvml /\ DeviceOk(0)) \/ ~QueryOk(0, "utilization") THEN {}
    ELSE {Probe(0, "utilization", GpuUtil(world.level))} \cup
         (IF ~QueryOk(0, "memory") THEN {}
          ELSE {Probe(0, "memory", GpuUsed(world.level))} \cup
               (IF ~QueryOk(0, "temperature") THEN {}
                ELSE {Probe(0, "temperature", GpuTemp(world.level))}))

\* get_process_info
get_process_info == monitor.system.process

\* DrawFrame with the two renders into chunks[3] in the other order
DrawFrameGpuFirst ==
    [drawn |-> TRUE,
     frame |-> IF frame_toggle THEN 1 ELSE 2,
     summary |-> gpu_summary,
     cpu |-> Line("cpu", << >>, monitor.system.cpu, 0),
     memory |-> Line("memory", << >>, MB(monitor.system.used), MB(monitor.system.total)),
     bottom |->
        (IF gpu_info.some
         THEN << Panel("gpu", << >>,
                       << gpu_info.v.usage, MB(gpu_info.v.used),
                          MB(gpu_info.v.total), gpu_info.v.temp >>) >>
         ELSE << >>)
        \o << IF get_process_info.some
              THEN Panel("process", monitor.process_name,
                         << get_process_info.v.cpu, MB(get_process_info.v.memory) >>)
              ELSE Panel("not_found", monitor.process_name, << >>) >>]

\* The closure handed to terminal.draw: the four chunks, chunks[3] being
\* rendered into once or twice, in this order.
DrawFrame ==
    [drawn |-> TRUE,
     frame |-> IF frame_toggle THEN 1 ELSE 2,
     summary |-> gpu_summary,
     cpu |-> Line("cpu", << >>, monitor.system.cpu, 0),
     memory |-> Line("memory", << >>, MB(monitor.system.used), MB(monitor.system.total)),
     bottom |->
        << IF get_process_info.some
           THEN Panel("process", monitor.process_name,
                      << get_process_info.v.cpu, MB(get_process_info.v.memory) >>)
           ELSE Panel("not_found", monitor.process_name, << >>) >>
        \o (IF gpu_info.some
            THEN << Panel("gpu", << >>,
                          << gpu_info.v.usage, MB(gpu_info.v.used),
                             MB(gpu_info.v.total), gpu_info.v.temp >>) >>
            ELSE << >>)]

\* What chunks[3] shows: widgets rendered into the same area replace what
\* was rendered there before.
Visible(scr) == scr.bottom[Len(scr.bottom)]

Exit(r) == pc' = "exited" /\ result' = r

\* main: arguments, LLMTrainMonitor::new, up to the call of run
Main ==
    /\ pc = "main" /\ mode = "dashboard"
    /\ LET interval == ParseU64(argv[2])
       IN  IF ~interval.some
           THEN /\ Exit(Panic("update_interval"))
                /\ UNCHANGED <<monitor, driver, world>>
           ELSE \E d \in Drivers, w \in Worlds :
                  LET m == New(argv[1], interval.v, ValueOf(argv, 3),
                               ValueOf(argv, 4), d.present, w)
                  IN  IF ~m.some
                      THEN /\ Exit(Panic("metric_regex"))
                           /\ UNCHANGED <<monitor, driver, world>>
                      ELSE /\ monitor' = m.v
                           /\ driver' = d
                           /\ world' = w
                           /\ pc' = "enable_raw"
                           /\ UNCHANGED result
    /\ UNCHANGED <<mode, argv, broke, draws, term, teardown, queue, gpu_info, gpu_summary,
                   frame_toggle, screen, transcript, tick, polled, probed>>

\* run, line 81: enable_raw_mode()?
EnableRawMode ==
    /\ pc = "enable_raw"
    /\ \/ /\ term' = [term EXCEPT !.raw = TRUE]
          /\ pc' = "enter_screen"
          /\ UNCHANGED result
       \/ /\ Exit(Err("enable_raw_mode"))
          /\ UNCHANGED term
    /\ UNCHANGED <<mode, argv, broke, draws, driver, world, monitor, teardown, queue, gpu_info,
                   gpu_summary, frame_toggle, screen, transcript, tick, polled,
                   probed>>

\* the execute! of line 83 without its cursor::Hide command
EnterScreenNoHide ==
    /\ pc = "enter_screen"
    /\ \/ /\ term' = [term EXCEPT !.alt = TRUE]
          /\ pc' = "terminal_new"
          /\ UNCHANGED result
       \/ /\ Exit(Err("enter_screen"))
          /\ UNCHANGED term
    /\ UNCHANGED <<mode, argv, broke, draws, driver, world, monitor, teardown, queue, gpu_info,
                   gpu_summary, frame_toggle, screen, transcript, tick, polled,
                   probed>>

\* run, line 83: execute!(stdout, EnterAlternateScreen, cursor::Hide)?
\* The write may fail before the first command or between the two.
EnterScreen ==
    /\ pc = "enter_screen"
    /\ \/ /\ term' = [term EXCEPT !.alt = TRUE, !.hidden = TRUE]
          /\ pc' = "terminal_new"
          /\ UNCHANGED result
       \/ /\ Exit(Err("enter_screen"))
          /\ \/ UNCHANGED term
             \/ term' = [term EXCEPT !.alt = TRUE]
    /\ UNCHANGED <<mode, argv, broke, draws, driver, world, monitor, teardown, queue, gpu_info,
                   gpu_summary, frame_toggle, screen, transcript, tick, polled,
                   probed>>

\* run, lines 84-109: Terminal::new(backend)?, then the banner, whose GPU
\* summary comes from the one call of get_gpu_info
TerminalNew ==
    /\ pc = "terminal_new"
    /\ \/ /\ gpu_info' = get_gpu_info
          /\ gpu_summary' = IF get_gpu_info.some
                            THEN Line("gpu_mb", << >>, MB(get_gpu_info.v.total), 0)
                            ELSE Line("no_gpu", << >>, 0, 0)
          /\ probed' = get_gpu_probes
          /\ frame_toggle' = FALSE
          /\ pc' = "update"
          /\ UNCHANGED result
       \/ /\ Exit(Err("terminal_new"))
          /\ UNCHANGED <<gpu_info, gpu_summary, probed, frame_toggle>>
    /\ UNCHANGED <<mode, argv, broke, draws, driver, world, monitor, term, teardown, queue,
                   screen, transcript, tick, polled>>

\* run, line 112: self.update()
Update ==
    /\ pc = "update" /\ mode = "dashboard"
    /\ tick < MaxTicks
    /\ \E w \in Worlds :
         /\ world' = w
         /\ monitor' = [monitor EXCEPT !.system = RefreshAll(w)]
    /\ tick' = tick + 1
    /\ polled' = FALSE
    /\ probed' = {}
    /\ pc' = "draw"
    /\ UNCHANGED <<mode, argv, broke, draws, driver, term, teardown, queue, gpu_info,
                   gpu_summary, frame_toggle, screen, transcript, result>>

\* the draw with a closure that leaves frame_toggle alone
DrawKeepsFrame ==
    /\ pc = "draw"
    /\ \/ /\ screen' = DrawFrame
          /\ draws' = draws + 1
          /\ pc' = "poll"
          /\ UNCHANGED result
       \/ /\ Exit(Err("draw"))
          /\ UNCHANGED <<screen, draws>>
    /\ UNCHANGED <<mode, argv, broke, driver, world, monitor, term, teardown, queue,
                   gpu_info, gpu_summary, frame_toggle, transcript, tick, polled,
                   probed>>

\* run, lines 113-167: terminal.draw(..)?  The draw fails before the closure
\* runs (resize) or after it (flush).
Draw ==
    /\ pc = "draw"
    /\ \/ /\ screen' = DrawFrame
          /\ frame_toggle' = ~frame_toggle
          /\ draws' = draws + 1
          /\ pc' = "poll"
          /\ UNCHANGED result
       \/ /\ Exit(Err("draw"))
          /\ UNCHANGED <<screen, draws>>
          /\ \/ UNCHANGED frame_toggle
             \/ frame_toggle' = ~frame_toggle
    /\ UNCHANGED <<mode, argv, broke, driver, world, monitor, term, teardown, queue,
                   gpu_info, gpu_summary, transcript, tick, polled, probed>>

\* the wait with a read that empties the queue when its head is not the
\* quit key
PollDrains ==
    /\ pc = "poll"
    /\ \/ /\ queue = << >>
          /\ polled' = TRUE
          /\ pc' = "update"
          /\ UNCHANGED <<queue, broke, result>>
       \/ /\ queue # << >>
          /\ polled' = TRUE
          /\ queue' = IF Head(queue) = "q" THEN Tail(queue) ELSE << >>
          /\ broke' = (Head(queue) = "q")
          /\ pc' = IF Head(queue) = "q" THEN "disable_raw" ELSE "update"
          /\ UNCHANGED result
       \/ /\ Exit(Err("poll"))
          /\ UNCHANGED <<polled, queue, broke>>
       \/ /\ queue # << >>
          /\ polled' = TRUE
          /\ Exit(Err("read"))
          /\ UNCHANGED <<queue, broke>>
    /\ UNCHANGED <<mode, argv, draws, driver, world, monitor, term, teardown,
                   gpu_info, gpu_summary, frame_toggle, screen, transcript, tick,
                   probed>>

\* Poll with the quit test dropped: any event breaks out of the loop
PollAnyEventQuits ==
    /\ pc = "poll"
    /\ \/ /\ queue = << >>
          /\ polled' = TRUE
          /\ pc' = "update"
          /\ UNCHANGED <<queue, broke, result>>
       \/ /\ queue # << >>
          /\ polled' = TRUE
          /\ queue' = Tail(queue)
          /\ broke' = TRUE
          /\ pc' = "disable_raw"
          /\ UNCHANGED result
       \/ /\ Exit(Err("poll"))
          /\ UNCHANGED <<polled, queue, broke>>
    /\ UNCHANGED <<mode, argv, draws, driver, world, monitor, term, teardown,
                   gpu_info, gpu_summary, frame_toggle, screen, transcript, tick,
                   probed>>

\* run, lines 169-175: the wait.  crossterm::event::poll(self.update_interval)?
\* times out on an empty queue; otherwise crossterm::event::read()? takes one
\* event, and Char('q') breaks out of the loop.
Poll ==
    /\ pc = "poll"
    /\ \/ /\ queue = << >>
          /\ polled' = TRUE
          /\ pc' = "update"
          /\ UNCHANGED <<queue, broke, result>>
       \/ /\ queue # << >>
          /\ polled' = TRUE
          /\ queue' = Tail(queue)
          /\ broke' = (Head(queue) = "q")
          /\ pc' = IF Head(queue) = "q" THEN "disable_raw" ELSE "update"
          /\ UNCHANGED result
       \/ /\ Exit(Err("poll"))
          /\ UNCHANGED <<polled, queue, broke>>
       \/ /\ queue # << >>
          /\ polled' = TRUE
          /\ Exit(Err("read"))
          /\ UNCHANGED <<queue, broke>>
    /\ UNCHANGED <<mode, argv, draws, driver, world, monitor, term, teardown,
                   gpu_info, gpu_summary, frame_toggle, screen, transcript, tick,
                   probed>>

\* run, line 178: disable_raw_mode()?
DisableRawMode ==
    /\ pc = "disable_raw"
    /\ \/ /\ term' = [term EXCEPT !.raw = FALSE]
          /\ teardown' = [teardown EXCEPT !.disable_raw = @ + 1]
          /\ pc' = "leave_screen"
          /\ UNCHANGED result
       \/ /\ Exit(Err("disable_raw_mode"))
          /\ UNCHANGED <<term, teardown>>
    /\ UNCHANGED <<mode, argv, broke, draws, driver, world, monitor, queue, gpu_info,
                   gpu_summary, frame_toggle, screen, transcript, tick, polled,
                   probed>>

\* LeaveScreen with the final Ok(()) replaced by an error return
LeaveScreenErr ==
    /\ pc = "leave_screen"
    /\ \/ /\ term' = [term EXCEPT !.alt = FALSE, !.hidden = FALSE]
          /\ teardown' = [teardown EXCEPT !.leave = @ + 1]
          /\ Exit(Err("leave_screen"))
       \/ /\ Exit(Err("leave_screen"))
          /\ UNCHANGED teardown
          /\ \/ UNCHANGED term
             \/ term' = [term EXCEPT !.alt = FALSE]
    /\ UNCHANGED <<mode, argv, broke, draws, driver, world, monitor, queue, gpu_info,
                   gpu_summary, frame_toggle, screen, transcript, tick, polled,
                   probed>>

\* run, lines 179-181: execute!(.., LeaveAlternateScreen, cursor::Show)?; Ok(())
LeaveScreen ==
    /\ pc = "leave_screen"
    /\ \/ /\ term' = [term EXCEPT !.alt = FALSE, !.hidden = FALSE]
          /\ teardown' = [teardown EXCEPT !.leave = @ + 1]
          /\ Exit(Ok)
       \/ /\ Exit(Err("leave_screen"))
          /\ UNCHANGED teardown
          /\ \/ UNCHANGED term
             \/ term' = [term EXCEPT !.alt = FALSE]
    /\ UNCHANGED <<mode, argv, broke, draws, driver, world, monitor, queue, gpu_info,
                   gpu_summary, frame_toggle, screen, transcript, tick, polled,
                   probed>>

----------------------------------------------------------------------------
(* Plain transcript binary: src/llmtrain_monitor.rs *)

GpuTensor(l) == IF l = "idle" THEN 0 ELSE 61

\* LLMTrainMonitor::new of the transcript binary (unwrap on the pattern)
PlainNew(process_name, update_interval, log_file_path, metric_regex, nvml, w) ==
    IF metric_regex.some /\ ~RegexNew(metric_regex.v).some
    THEN None
    ELSE Some([process_name |-> process_name,
               update_interval |-> update_interval,
               log_file_path |-> log_file_path,
               metric_regex |-> IF metric_regex.some
                                THEN RegexNew(metric_regex.v) ELSE None,
               nvml |-> nvml,
               system |-> RefreshAll(w)])

\* main: parse()? returns the error, new's unwrap panics
PlainMain ==
    /\ pc = "main" /\ mode = "plain"
    /\ LET interval == ParseU64(argv[2])
       IN  IF ~interval.some
           THEN /\ Exit(Err("update_interval"))
                /\ UNCHANGED <<monitor, driver, world>>
           ELSE \E d \in Drivers, w \in Worlds :
                  LET m == PlainNew(argv[1], interval.v, ValueOf(argv, 3),
                                    ValueOf(argv, 4), d.present, w)
                  IN  IF ~m.some
                      THEN /\ Exit(Panic("metric_regex"))
                           /\ UNCHANGED <<monitor, driver, world>>
                      ELSE /\ monitor' = m.v
                           /\ driver' = d
                           /\ world' = w
                           /\ pc' = "update"
                           /\ UNCHANGED result
    /\ UNCHANGED <<mode, argv, broke, draws, term, teardown, queue, gpu_info, gpu_summary,
                   frame_toggle, screen, transcript, tick, polled, probed>>

\* update: refresh_all, then device 0.  Without a device it prints the
\* "not available" line and returns; with one, utilization_rates().unwrap()
\* and memory_info().unwrap() panic on a failing query.
PlainUpdate ==
    /\ pc = "update" /\ mode = "plain"
    /\ tick < MaxTicks
    /\ tick' = tick + 1
    /\ polled' = FALSE
    /\ \E w \in Worlds :
         /\ world' = w
         /\ monitor' = [monitor EXCEPT !.system = RefreshAll(w)]
         /\ IF ~(monitor.nvml /\ DeviceOk(0))
            THEN /\ transcript' = Append(transcript, Line("gpu_na", << >>, 0, 0))
                 /\ probed' = {}
                 /\ pc' = "display"
                 /\ UNCHANGED result
            ELSE IF ~QueryOk(0, "utilization")
            THEN /\ Exit(Panic("utilization_rates"))
                 /\ probed' = {}
                 /\ UNCHANGED transcript
            ELSE IF ~QueryOk(0, "memory")
            THEN /\ Exit(Panic("memory_info"))
                 /\ probed' = {Probe(0, "utilization", GpuUtil(w.level))}
                 /\ UNCHANGED transcript
            ELSE /\ probed' = {Probe(0, "utilization", GpuUtil(w.level)),
                               Probe(0, "memory", GpuUsed(w.level))}
                 /\ pc' = "display"
                 /\ UNCHANGED <<transcript, result>>
    /\ UNCHANGED <<mode, argv, broke, draws, driver, term, teardown, queue, gpu_info,
                   gpu_summary, frame_toggle, screen>>

\* display_gpu_info, lines 83-98: the rows of device i
DeviceRows(i) ==
    << Line("gpu", << >>, i, 0) >>
    \o (IF QueryOk(i, "utilization")
        THEN << Line("gpu_usage", << >>, GpuUtil(world.level), 0) >> ELSE << >>)
    \o (IF QueryOk(i, "memory")
        THEN << Line("gpu_memory", << >>, MB(GpuUsed(world.level)), MB(GpuTotal)) >>
        ELSE << >>)
    \o (IF QueryOk(i, "temperature")
        THEN << Line("gpu_temperature", << >>, GpuTemp(world.level), 0) >> ELSE << >>)
    \o (IF QueryOk(i, "tensor")
        THEN << Line("gpu_tensor", << >>, GpuTensor(world.level), 0) >> ELSE << >>)

DeviceProbes(i) ==
    (IF QueryOk(i, "utilization")
     THEN {Probe(i, "utilization", GpuUtil(world.level))} ELSE {})
    \cup (IF QueryOk(i, "memory")
          THEN {Probe(i, "memory", GpuUsed(world.level))} ELSE {})
    \cup (IF QueryOk(i, "temperature")
          THEN {Probe(i, "temperature", GpuTemp(world.level))} ELSE {})
    \cup (IF QueryOk(i, "tensor")
          THEN {Probe(i, "tensor", GpuTensor(world.level))} ELSE {})

\* display_gpu_info, lines 81-100: devices i..n-1; device_by_index(i).ok()?
\* leaves the loop with None, after the rows already printed
RECURSIVE GpuLoop(_, _)
GpuLoop(i, n) ==
    IF i >= n THEN [lines |-> << >>, probes |-> {}, some |-> TRUE]
    ELSE IF ~DeviceOk(i) THEN [lines |-> << >>, probes |-> {}, some |-> FALSE]
    ELSE LET rest == GpuLoop(i + 1, n)
         IN  [lines |-> DeviceRows(i) \o rest.lines,
              probes |-> DeviceProbes(i) \cup rest.probes,
              some |-> rest.some]

display_gpu_info ==
    IF ~monitor.nvml THEN [lines |-> << >>, probes |-> {}, some |-> FALSE]
    ELSE GpuLoop(0, driver.count)

\* display: the lines one call prints, in order
display ==
    << Line("title", << >>, 0, 0),
       Line("rule", << >>, 0, 0),
       Line("cpu", << >>, monitor.system.cpu, 0) >>
    \o display_gpu_info.lines
    \o (IF ~display_gpu_info.some THEN << Line("gpu_na", << >>, 0, 0) >> ELSE << >>)
    \o << Line("memory", << >>, MB(monitor.system.used), MB(monitor.system.total)) >>
    \o (IF monitor.system.process.some
        THEN << Line("process_cpu", << >>, monitor.system.process.v.cpu, 0),
                Line("process_memory", << >>, MB(monitor.system.process.v.memory), 0) >>
        ELSE << Line("not_found", monitor.process_name, 0, 0) >>)

\* run, line 107: self.display()
PlainDisplay ==
    /\ pc = "display"
    /\ transcript' = transcript \o display
    /\ probed' = probed \cup display_gpu_info.probes
    /\ pc' = "sleep"
    /\ UNCHANGED <<mode, argv, broke, draws, driver, world, monitor, term, teardown, queue,
                   gpu_info, gpu_summary, frame_toggle, screen, tick, polled,
                   result>>

\* run, line 108: std::thread::sleep(self.update_interval), then loop
PlainSleep ==
    /\ pc = "sleep"
    /\ pc' = "update"
    /\ UNCHANGED <<mode, argv, broke, draws, driver, world, monitor, term, teardown, queue,
                   gpu_info, gpu_summary, frame_toggle, screen, transcript,
                   tick, polled, probed, result>>

----------------------------------------------------------------------------
(* Environment *)

\* The operator presses a key, or the terminal delivers another event.
Press ==
    /\ pc # "exited"
    /\ Len(queue) < MaxQueue
    /\ \E e \in Events : queue' = Append(queue, e)
    /\ UNCHANGED <<mode, argv, broke, draws, driver, world, pc, monitor, term, teardown,
                   gpu_info, gpu_summary, frame_toggle, screen, transcript, tick,
                   polled, probed, result>>

Init ==
    /\ mode \in Modes
    /\ argv \in ArgVectors
    /\ driver = NoDriver
    /\ world = IdleWorld
    /\ pc = "main"
    /\ monitor = NoMonitor
    /\ term = [raw |-> FALSE, alt |-> FALSE, hidden |-> FALSE]
    /\ teardown = [disable_raw |-> 0, leave |-> 0]
    /\ queue = << >>
    /\ gpu_info = None
    /\ gpu_summary = Line("none", << >>, 0, 0)
    /\ frame_toggle = FALSE
    /\ screen = BlankScreen
    /\ transcript = << >>
    /\ tick = 0
    /\ polled = FALSE
    /\ probed = {}
    /\ broke = FALSE
    /\ draws = 0
    /\ result = Running

----------------------------------------------------------------------------
(* The monitor loop's two states *)

LoopPcs == {"update", "draw", "poll", "display", "sleep"}

RUNNING == pc \in LoopPcs
STOPPED == pc \in {"disable_raw", "leave_screen", "exited"} /\ monitor # NoMonitor

Exited == pc = "exited"

\* the errors of the dashboard binary that are fatal: startup validation
\* and terminal I/O
StartupErrors == {"update_interval", "metric_regex"}
TerminalErrors == {"enable_raw_mode", "enter_screen", "terminal_new", "draw",
                   "poll", "read", "disable_raw_mode", "leave_screen"}
TeardownErrors == {"disable_raw_mode", "leave_screen"}

\* run got past enable_raw_mode: raw mode was switched on
RawModeWasEnabled == result.what \notin (StartupErrors \cup {"enable_raw_mode"})

QuitPending == \E i \in 1..Len(queue) : queue[i] = "q"

\* a tick's output is complete: the dashboard has drawn and waits, the
\* transcript binary has printed and sleeps
AfterDraw ==
    \/ mode = "dashboard" /\ pc = "poll"
    \/ mode = "plain" /\ pc = "sleep"

\* the transcript binary's current block starts at its last title line
BlockStart ==
    LET titles == { i \in 1..Len(transcript) : transcript[i].k = "title" }
    IN  IF titles = {} THEN 1 ELSE CHOOSE i \in titles : \A j \in titles : j <= i

BlockHas(k) == \E i \in BlockStart..Len(transcript) : transcript[i].k = k

MetricLine(m) ==
    IF m = "utilization" THEN "gpu_usage"
    ELSE IF m = "memory" THEN "gpu_memory"
    ELSE IF m = "temperature" THEN "gpu_temperature"
    ELSE "gpu_tensor"

\* the block shows metric m in the rows of device i
RowShown(i, m) ==
    \E h \in BlockStart..Len(transcript) :
        /\ transcript[h].k = "gpu" /\ transcript[h].a = i
        /\ \E j \in (h + 1)..Len(transcript) :
              /\ transcript[j].k = MetricLine(m)
              /\ \A l \in (h + 1)..j : transcript[l].k # "gpu"

\* metric m of device i is visible in the tick's output
MetricRendered(i, m) ==
    IF mode = "dashboard"
    THEN screen.drawn /\ Visible(screen).k = "gpu" /\ i = 0
    ELSE RowShown(i, m)

CoreMetrics == {"utilization", "memory", "temperature"}

QueryPanics == {"utilization_rates", "memory_info"}

IsPrefix(s, t) == Len(s) <= Len(t) /\ SubSeq(t, 1, Len(s)) = s

\* The transcript as a sequence of blocks: title, CPU, device rows or the
\* "not available" line, memory, process lines or the "not found" line,
\* extracted-metric lines, separator.  st is the line read last.
BlockStep(st, k) ==
    IF st = "start" THEN (IF k = "title" THEN "title" ELSE "bad")
    ELSE IF st = "title"
         THEN (IF k = "rule" THEN "title" ELSE IF k = "cpu" THEN "cpu" ELSE "bad")
    ELSE IF st = "cpu"
         THEN (IF k = "gpu" THEN "rows" ELSE IF k = "gpu_na" THEN "na" ELSE "bad")
    ELSE IF st = "rows"
         THEN (IF k \in {"gpu", "gpu_usage", "gpu_memory", "gpu_temperature",
                         "gpu_tensor"} THEN "rows"
               ELSE IF k = "memory" THEN "memory" ELSE "bad")
    ELSE IF st = "na" THEN (IF k = "memory" THEN "memory" ELSE "bad")
    ELSE IF st = "memory"
         THEN (IF k = "process_cpu" THEN "process"
               ELSE IF k = "not_found" THEN "end" ELSE "bad")
    ELSE IF st = "process" THEN (IF k = "process_memory" THEN "end" ELSE "bad")
    ELSE IF st = "end"
         THEN (IF k \in {"metric", "rule"} THEN "end"
               ELSE IF k = "title" THEN "title" ELSE "bad")
    ELSE "bad"

RECURSIVE BlocksEnd(_, _)
BlocksEnd(seq, st) ==
    IF seq = << >> THEN st ELSE BlocksEnd(Tail(seq), BlockStep(st, Head(seq).k))

WellFormed(seq) == BlocksEnd(seq, "start") \in {"start", "end"}

\* update_interval as the claim wants it: an integer greater than 0
GoodInterval(arg) == ParseU64(arg).some /\ ParseU64(arg).v > 0
GoodPatternArg(args) == Len(args) < 4 \/ RegexNew(args[4]).some

----------------------------------------------------------------------------
(* Claims *)

\* C1: in dashboard mode, every exit of run after raw mode was enabled has
\* executed the terminal restoration exactly once: raw mode is off, the
\* alternate screen is left and the cursor is shown.
C1_RestoredOnEveryExit ==
    (mode = "dashboard" /\ Exited /\ RawModeWasEnabled) =>
        /\ ~term.raw /\ ~term.alt /\ ~term.hidden
        /\ teardown.disable_raw = 1 /\ teardown.leave = 1

\* C2: while the quit key is among the events available to tick N's wait,
\* the wait never ends by going on to tick N+1: it stays in the wait or the
\* loop stops.
C2_QuitStopsBeforeNextTick ==
    [][(mode = "dashboard" /\ pc = "poll" /\ QuitPending)
         => pc' \in {"poll", "disable_raw", "exited"}]_vars

\* C3: in both presentation modes the loop polls for a keypress on each
\* tick: whenever a tick is over and the next is about to begin, the event
\* queue has been polled during the tick that ended.
C3_PollsEachTick ==
    (pc = "update" /\ tick > 0) => polled

\* C4, as claimed: the dashboard exits non-zero only on a fatal error, and
\* whenever the loop ended because of the quit key the exit status is 0.
C4_QuitExitsZero ==
    (mode = "dashboard" /\ Exited) =>
        /\ ExitCode(result) # 0 => result.what \in (StartupErrors \cup TerminalErrors)
        /\ broke => ExitCode(result) = 0

\* C4, amended: the dashboard exits non-zero only on a fatal error; when the
\* loop ended because of the quit key and both teardown steps succeeded the
\* exit status is 0, and a quit exits non-zero only when a teardown step
\* (disable_raw_mode, leaving the alternate screen) failed.
C4_ExitStatus ==
    (mode = "dashboard" /\ Exited) =>
        /\ ExitCode(result) # 0 => result.what \in (StartupErrors \cup TerminalErrors)
        /\ (broke /\ teardown.disable_raw = 1 /\ teardown.leave = 1)
             => ExitCode(result) = 0
        /\ (broke /\ ExitCode(result) # 0) => result.what \in TeardownErrors

\* C4 witness: the operator quit after at least one tick, the terminal was
\* restored and the status is 0.
C4_Witness ==
    /\ mode = "dashboard" /\ Exited /\ broke /\ tick >= 1
    /\ teardown.leave = 1
    /\ ExitCode(result) = 0

----------------------------------------------------------------------------
(* C11: log tail extraction as the claim describes it *)

\* the log file of the claim's example: a=1, b=2, a=3
LogLines == << <<"a", "=", "1">>, <<"b", "=", "2">>, <<"a", "=", "3">> >>

\* the text of a pattern before its first group
RECURSIVE Literal(_)
Literal(p) ==
    IF p = << >> \/ Head(p) = "(" THEN << >> ELSE <<Head(p)>> \o Literal(Tail(p))

\* first capture group of pattern `literal(d)` in a line: the digit after
\* the leftmost occurrence of the literal
Capture(line, p) ==
    LET lit == Literal(p)
        hits == { i \in 1..Len(line) :
                    /\ i + Len(lit) <= Len(line)
                    /\ SubSeq(line, i, i + Len(lit) - 1) = lit
                    /\ IsDigit(line[i + Len(lit)]) }
    IN  IF hits = {} THEN None
        ELSE LET i == CHOOSE h \in hits : \A g \in hits : h <= g
             IN  Some(<<line[i + Len(lit)]>>)

\* scan from the end of the file, at most 10 captures, latest match first
RECURSIVE Extract(_, _, _)
Extract(lines, p, n) ==
    IF lines = << >> \/ n = 0 THEN << >>
    ELSE LET last == lines[Len(lines)]
             rest == SubSeq(lines, 1, Len(lines) - 1)
         IN  IF Capture(last, p).some
             THEN <<Capture(last, p).v>> \o Extract(rest, p, n - 1)
             ELSE Extract(rest, p, n)

\* the extracted-metric entries visible in the tick's output
RenderedMetrics ==
    IF mode = "dashboard"
    THEN LET at == { i \in 1..Len(screen.bottom) : screen.bottom[i].k = "metrics" }
         IN  IF at = {} THEN << >> ELSE screen.bottom[CHOOSE i \in at : TRUE].items
    ELSE LET metric(l) == l.k = "metric"
             block == SubSeq(transcript, BlockStart, Len(transcript))
         IN  [ i \in 1..Len(SelectSeq(block, metric)) |-> SelectSeq(block, metric)[i].name ]

\* C11: with log_file_path and metric_pattern configured, each tick's
\* rendered output carries the log metrics extracted on that tick: first
\* capture groups, scanned from the end of the file, at most 10, latest
\* match first (a=1, b=2, a=3 gives 3 then 1).
C11_LogMetricsRendered ==
    (AfterDraw /\ monitor.log_file_path.some /\ monitor.metric_regex.some) =>
        RenderedMetrics = Extract(LogLines, monitor.metric_regex.v, 10)

\* C5: on every tick in which no process matches process_name, the process
\* field is absent and what is visible after the tick's draw contains the
\* "not found" indicator naming the process, in both modes.
C5_NotFoundRendered ==
    (AfterDraw /\ ~world.proc) =>
        /\ ~monitor.system.process.some
        /\ IF mode = "dashboard"
           THEN /\ Visible(screen).k = "not_found"
                /\ Visible(screen).name = monitor.process_name
           ELSE \E i \in BlockStart..Len(transcript) :
                    transcript[i] = Line("not_found", monitor.process_name, 0, 0)

\* C6: with the accelerator subsystem initialized, on every tick after the
\* first (whose values the startup probe could still explain) every healthy
\* device is queried during the tick, and the accelerator values the tick
\* renders are values probed during that tick.
C6_AcceleratorValuesFresh ==
    (AfterDraw /\ monitor.nvml /\ tick > 1) =>
        /\ \A i \in 0..(driver.count - 1) :
             (\A q \in Queries : <<i, q>> \notin driver.faults) =>
                 \A m \in CoreMetrics : \E p \in probed : p.dev = i /\ p.query = m
        /\ (mode = "dashboard" /\ Visible(screen).k = "gpu") =>
             /\ Probe(0, "utilization", Visible(screen).items[1]) \in probed
             /\ \E p \in probed : /\ p.dev = 0 /\ p.query = "memory"
                                  /\ MB(p.v) = Visible(screen).items[2]
             /\ Probe(0, "temperature", Visible(screen).items[4]) \in probed
        /\ mode = "plain" =>
             \A j \in BlockStart..Len(transcript) :
                 /\ transcript[j].k = "gpu_usage" =>
                      \E p \in probed : p.query = "utilization" /\ p.v = transcript[j].a
                 /\ transcript[j].k = "gpu_memory" =>
                      \E p \in probed : p.query = "memory" /\ MB(p.v) = transcript[j].a
                 /\ transcript[j].k = "gpu_temperature" =>
                      \E p \in probed : p.query = "temperature" /\ p.v = transcript[j].a

\* C7: a failing per-device query never aborts the tick, and every metric
\* of every device whose query succeeds is still rendered, in both modes.
C7_FailedQuerySkipsOnlyItsField ==
    /\ result.what \notin QueryPanics
    /\ (AfterDraw /\ monitor.nvml
          /\ \A i \in 0..(driver.count - 1) : DeviceOk(i)) =>
         \A i \in 0..(driver.count - 1) : \A m \in CoreMetrics :
             QueryOk(i, m) => MetricRendered(i, m)

\* C8: with the accelerator source absent or failing, and the process
\* present or not, every tick completes and renders the CPU section, the
\* memory section and the process section.
C8_PartialFailureIsolation ==
    /\ result.what \notin QueryPanics
    /\ (AfterDraw /\ mode = "dashboard" /\ ~gpu_info.some) =>
         /\ screen.cpu.k = "cpu"
         /\ screen.memory.k = "memory"
         /\ Visible(screen).k \in {"process", "not_found"}
    /\ (AfterDraw /\ mode = "plain") =>
         /\ BlockHas("cpu")
         /\ BlockHas("memory")
         /\ BlockHas("process_cpu") \/ BlockHas("not_found")

\* C9: the loop is RUNNING only if update_interval is an integer greater
\* than 0 and the pattern, when given, compiles; otherwise the program ends
\* at startup with a non-zero status, before any tick and before raw mode
\* or the alternate screen.
C9_StartupValidation ==
    /\ RUNNING => GoodInterval(argv[2]) /\ GoodPatternArg(argv)
    /\ ~(GoodInterval(argv[2]) /\ GoodPatternArg(argv)) =>
         /\ pc \in {"main", "exited"}
         /\ Exited => /\ ExitCode(result) # 0
                      /\ tick = 0
                      /\ ~term.raw /\ ~term.alt

\* C10: in transcript mode nothing written earlier is ever cleared, and
\* after every tick the transcript is a sequence of blocks in the order
\* title, CPU, device rows or one "not available" line, memory, process
\* lines or "not found" line, extracted-metric lines, separator.
C10_TranscriptBlocks ==
    [][/\ IsPrefix(transcript, transcript')
       /\ (mode = "plain" /\ pc' = "sleep") => WellFormed(transcript')]_vars

\* C12: in every dashboard tick the refresh comes before the draw and the
\* draw before the wait; a timeout, a non-quit key or a non-key event
\* leaves the loop RUNNING and starts the next tick; only the quit key or a
\* fatal error stops the loop; once STOPPED nothing is refreshed, drawn or
\* polled.
C12_TickProtocol ==
    [][mode = "dashboard" =>
        /\ tick' # tick => pc = "update" /\ pc' = "draw" /\ draws = tick
        /\ draws' # draws => tick = draws + 1 /\ ~polled /\ pc' = "poll"
        /\ (polled' /\ ~polled) => pc = "poll" /\ draws = tick
        /\ (pc = "poll" /\ pc' # pc /\ (queue = << >> \/ Head(queue) # "q"))
             => \/ pc' = "update" /\ result' = Running
                \/ pc' = "exited" /\ result'.kind = "Err"
        /\ (RUNNING /\ ~RUNNING')
             => \/ pc = "poll" /\ queue # << >> /\ Head(queue) = "q" /\ broke'
                \/ result'.kind = "Err"
        /\ STOPPED => /\ STOPPED'
                      /\ tick' = tick /\ draws' = draws /\ polled' = polled
                      /\ screen' = screen
                      /\ Len(queue') >= Len(queue)]_vars

\* C12 witness: a wait ended without the quit key, a second tick was
\* refreshed and drawn, then the quit key stopped the loop.
C12_Witness ==
    /\ mode = "dashboard" /\ STOPPED /\ broke
    /\ tick = 2 /\ draws = 2

\* the panels of chunks[3] that a later render into chunks[3] covers
Covered(scr) == { scr.bottom[i].k : i \in 1..(Len(scr.bottom) - 1) }

GpuLineKinds == {"gpu", "gpu_usage", "gpu_memory", "gpu_temperature", "gpu_tensor"}

\* nothing of the accelerator is in the output, and what stands in its
\* place is the "No GPU detected" / "not available" text
AcceleratorSectionAbsent ==
    /\ ~gpu_info.some
    /\ probed = {}
    /\ \A i \in 1..Len(screen.bottom) : screen.bottom[i].k # "gpu"
    /\ screen.drawn => screen.summary.k = "no_gpu"
    /\ \A i \in 1..Len(transcript) : transcript[i].k \notin GpuLineKinds
    /\ (mode = "plain" /\ pc \in {"display", "sleep"}) => BlockHas("gpu_na")

\* C14: a failed accelerator initialization does not abort the program (the
\* only exits at construction are the argument ones, and no accelerator
\* query ever ends the run); the handle is fixed at construction and never
\* acquired later; and with the initialization failed the accelerator
\* section is absent from the output of every tick.
C14_InitFailureDowngrades ==
    [][/\ (pc = "main" /\ pc' = "exited") =>
             \/ ~ParseU64(argv[2]).some
             \/ ValueOf(argv, 4).some /\ ~RegexNew(ValueOf(argv, 4).v).some
       /\ monitor # NoMonitor => monitor' # NoMonitor /\ monitor'.nvml = monitor.nvml
       /\ (monitor' # NoMonitor /\ ~driver'.present) =>
             /\ ~monitor'.nvml
             /\ result'.what \notin QueryPanics
             /\ AcceleratorSectionAbsent']_vars

\* C14 witness: the second tick's output of a run whose initialization
\* failed with a device installed
C14_Witness ==
    /\ AfterDraw /\ tick = 2
    /\ monitor # NoMonitor /\ ~driver.present /\ driver.count > 0
    /\ AcceleratorSectionAbsent

\* the banner frame of the k-th completed draw: frame_toggle starts false
\* and selects frame 2, so odd draws show frame 2 and even draws frame 1
FrameOfDraw(k) == IF k % 2 = 1 THEN 2 ELSE 1

\* C15: every completed draw flips the toggle exactly once and nothing else
\* flips it; the frame of the k-th draw is decided by the parity of k; and
\* the frames of two consecutive completed draws differ.
C15_BannerAlternates ==
    [][mode = "dashboard" =>
         /\ (pc = "draw" /\ pc' = "poll") => draws' = draws + 1
         /\ draws' # draws =>
              /\ draws' = draws + 1
              /\ frame_toggle' = ~frame_toggle
              /\ screen'.frame = FrameOfDraw(draws')
              /\ screen.drawn => screen'.frame # screen.frame
         /\ frame_toggle' # frame_toggle => pc = "draw"
         /\ (pc' \in {"update", "poll"} /\ draws' > 0) =>
              /\ screen'.frame = FrameOfDraw(draws')
              /\ frame_toggle' = (draws' % 2 = 1)]_vars

\* C15 witness: the second draw is complete and shows frame 1 after frame 2
C15_Witness ==
    /\ mode = "dashboard" /\ pc = "poll"
    /\ draws = 2 /\ screen.frame = 1 /\ ~frame_toggle

\* enable_raw_mode, EnterAlternateScreen and cursor::Hide have all taken
\* effect and none of them has been undone
ScreenMode == term.raw /\ term.alt /\ term.hidden

TeardownStarted ==
    \/ pc \in {"disable_raw", "leave_screen"}
    \/ teardown.disable_raw > 0 \/ teardown.leave > 0
    \/ result.what \in TeardownErrors

\* C16: every draw and every poll/read of the dashboard, failed ones
\* included, is made in raw mode on the alternate screen with the cursor
\* hidden and before teardown has started; the screen changes and an event
\* is taken from the queue by those steps only.
C16_ScreenMode ==
    [][mode = "dashboard" =>
         /\ pc \in {"draw", "poll"} => ScreenMode /\ ~TeardownStarted
         /\ (draws' # draws \/ screen' # screen) =>
              pc = "draw" /\ ScreenMode /\ ~TeardownStarted /\ term' = term
         /\ (Len(queue') < Len(queue) \/ (polled' /\ ~polled)) =>
              pc = "poll" /\ ScreenMode /\ ~TeardownStarted /\ term' = term
         /\ TeardownStarted =>
              TeardownStarted' /\ draws' = draws /\ screen' = screen]_vars

\* C16 witness: a draw and a read have been made, and teardown has begun
C16_Witness ==
    /\ mode = "dashboard" /\ pc = "leave_screen"
    /\ draws = 2 /\ polled /\ broke
    /\ ~term.raw /\ term.alt /\ term.hidden

\* C17: the queue changes only by an arrival at its end or by the one read
\* of a tick, which takes the head; a tick whose wait finds an event reads
\* exactly that one and goes on to the next tick or, if it is the quit key,
\* leaves the loop; a quit key that is not at the head is not honored by
\* that tick, and is honored only by the read of a tick already drawn.
C17_OneEventPerTick ==
    [][mode = "dashboard" =>
         /\ queue' # queue =>
              \/ \E e \in Events : queue' = Append(queue, e)
              \/ /\ pc = "poll" /\ ~polled /\ polled' /\ draws = tick
                 /\ queue # << >> /\ queue' = Tail(queue)
         /\ (pc = "poll" /\ pc' # pc /\ queue # << >> /\ result' = Running) =>
              /\ queue' = Tail(queue)
              /\ broke' = (Head(queue) = "q")
              /\ pc' = IF Head(queue) = "q" THEN "disable_raw" ELSE "update"
         /\ (pc = "poll" /\ pc' # pc /\ queue = << >>) =>
              queue' = queue /\ ~broke'
         /\ (broke' /\ ~broke) =>
              /\ pc = "poll" /\ draws = tick
              /\ queue # << >> /\ Head(queue) = "q"
         /\ (pc = "poll" /\ pc' # pc /\ queue # << >> /\ Head(queue) # "q") =>
              /\ ~broke'
              /\ pc' = "update" \/ result'.what \in {"poll", "read"}
              /\ QuitPending => QuitPending'
         /\ pc \in {"update", "draw"} => Len(queue') >= Len(queue)]_vars

\* C17 witness: the first tick's wait did not end the run and the quit key
\* is honored by the read of the second tick, after its draw
C17_Witness ==
    /\ mode = "dashboard" /\ broke /\ pc = "disable_raw"
    /\ tick = 2 /\ draws = 2 /\ polled

Next ==
    \/ Main \/ EnableRawMode \/ EnterScreen \/ TerminalNew
    \/ Update \/ Draw \/ Poll
    \/ DisableRawMode \/ LeaveScreen
    \/ PlainMain \/ PlainUpdate \/ PlainDisplay \/ PlainSleep
    \/ Press

Spec == Init /\ [][Next]_vars

====
